---- MODULE Spec2Model ----
(***************************************************************************)
(* Strategy execution engine of ai-engine/src/strategy_execution.py:       *)
(* RiskManager (risk gate, position limit, balance tracking), the          *)
(* BaseStrategy control loop (run) with its position lifecycle and         *)
(* PerformanceMetrics accounting.                                          *)
(*                                                                         *)
(* Numbers.  Python floats are modelled exactly: prices, amounts, balances *)
(* and PnL are integers; ratios (current_drawdown, the position limit,     *)
(* win_rate) are reduced fractions <<num, den>> with den > 0;              *)
(* volatilities, risk scores and max_drawdown_pct are in thousandths.      *)
(* Asset identifiers are tuples of one-character strings so that the       *)
(* substring lookup of _get_asset_volatility is computed, not assumed.     *)
(***************************************************************************)
EXTENDS Integers, Sequences, FiniteSets, TLC

VARIABLES
    risk_manager,        \* RiskManager fields
    positions,           \* BaseStrategy.positions: dict asset -> Position, in insertion order
    performance,         \* BaseStrategy.performance: PerformanceMetrics
    is_running,          \* BaseStrategy.is_running
    pc,                  \* position of the coroutine BaseStrategy.run
    market_data,         \* local market_data of the current iteration (its price)
    positions_to_close,  \* local list of _check_position_exits still to be closed
    signal,              \* local signal of the current iteration
    approved,            \* value of assess_risk(signal, self.positions) in the current iteration
    exec_signal,         \* argument of the execute_signal call in flight
    sleeping,            \* duration of the asyncio.sleep in progress
    last,                \* what the latest step of run() did (observation of the step)
    params,              \* BaseStrategy.params: StrategyParameters (never assigned after construction)
    call,                \* latest direct call of RiskManager.assess_risk: arguments and result
    reports,             \* the new_balance arguments of the update_balance calls made on a
                         \* fresh RiskManager, in call order (kept under SpecBalance)
    limit_calls,         \* the latest two direct calls of _calculate_position_limit:
                         \* asset, current_drawdown at the call, result
    stop_called,         \* stop() has been called since the task of run() was created
                         \* (kept under SpecStop)
    exit_calls,          \* the lists of closes the direct calls of _check_position_exits
                         \* set out to do, in call order (kept under SpecExit)
    executor,            \* StrategyExecutor fields: strategies (id -> strategy), tasks (id -> task)
    loop_tasks,          \* the asyncio tasks created by add_strategy, in creation order
    instances,           \* the strategy objects handed to the executor: is_running, performance
    last_call,           \* latest call of a StrategyExecutor method: name, id, returned value
    registered           \* the <<id, strategy>> added by add_strategy (latest per id) and not
                         \* removed since

vars == <<risk_manager, positions, performance, is_running, pc, market_data,
          positions_to_close, signal, approved, exec_signal, sleeping, last, params, call,
          reports, limit_calls, stop_called, exit_calls,
          executor, loop_tasks, instances, last_call, registered>>

\* the state of a StrategyExecutor and of what it runs
execVars == <<executor, loop_tasks, instances, last_call, registered>>

\* what the calls of a StrategyExecutor and its tasks leave alone
nonExecVars == <<risk_manager, positions, performance, is_running, pc, market_data,
                 positions_to_close, signal, approved, exec_signal, sleeping, last, params,
                 call, reports, limit_calls, stop_called, exit_calls>>

\* what the loop and the direct assess_risk calls leave alone
auxVars == <<reports, limit_calls, stop_called, exit_calls, execVars>>

loopVars == <<positions, performance, is_running, pc, market_data,
              positions_to_close, signal, approved, exec_signal, sleeping, last, params>>

----------------------------------------------------------------------------
(* Values *)

\* an absent Optional[float] (Python None)
NoPrice == 0 - 1

\* no reason / no result
None == "None"

Max(a, b) == IF a >= b THEN a ELSE b

Abs(x) == IF x < 0 THEN 0 - x ELSE x

RECURSIVE GCD(_, _)
GCD(a, b) == IF b = 0 THEN a ELSE GCD(b, a % b)

\* the value n/d (d # 0) as a reduced fraction with positive denominator
Rat(n, d) ==
    LET g == GCD(Abs(n), Abs(d))
        s == IF d < 0 THEN 0 - 1 ELSE 1
    IN  <<(s * n) \div g, (s * d) \div g>>

\* float comparison  a > q  of an integer with a fraction
IntGreaterRat(a, q) == a * q[2] > q[1]

----------------------------------------------------------------------------
(* Asset identifiers *)

BTCUSDT == <<"B", "T", "C", "U", "S", "D", "T">>
ETHUSDT == <<"E", "T", "H", "U", "S", "D", "T">>
BNBUSDT == <<"B", "N", "B", "U", "S", "D", "T">>
ADAUSDT == <<"A", "D", "A", "U", "S", "D", "T">>
SOLUSDT == <<"S", "O", "L", "U", "S", "D", "T">>
DOTUSDT == <<"D", "O", "T", "U", "S", "D", "T">>
APTUSDT == <<"A", "P", "T", "U", "S", "D", "T">>
USDT == <<"U", "S", "D", "T">>
usdc == <<"u", "s", "d", "c">>
APT == <<"A", "P", "T">>
DOGE == <<"D", "O", "G", "E">>
LINK == <<"L", "I", "N", "K">>
AVAX == <<"A", "V", "A", "X">>
SOL == <<"S", "O", "L">>
EmptyAsset == <<>>

LowerToUpper ==
    [c \in {"a", "b", "c", "d", "e", "f", "g", "h", "i", "j", "k", "l", "m",
            "n", "o", "p", "q", "r", "s", "t", "u", "v", "w", "x", "y", "z"} |->
        CASE c = "a" -> "A" [] c = "b" -> "B" [] c = "c" -> "C" [] c = "d" -> "D"
          [] c = "e" -> "E" [] c = "f" -> "F" [] c = "g" -> "G" [] c = "h" -> "H"
          [] c = "i" -> "I" [] c = "j" -> "J" [] c = "k" -> "K" [] c = "l" -> "L"
          [] c = "m" -> "M" [] c = "n" -> "N" [] c = "o" -> "O" [] c = "p" -> "P"
          [] c = "q" -> "Q" [] c = "r" -> "R" [] c = "s" -> "S" [] c = "t" -> "T"
          [] c = "u" -> "U" [] c = "v" -> "V" [] c = "w" -> "W" [] c = "x" -> "X"
          [] c = "y" -> "Y" [] c = "z" -> "Z"]

\* str.upper()
Upper(s) == [i \in 1..Len(s) |-> IF s[i] \in DOMAIN LowerToUpper THEN LowerToUpper[s[i]] ELSE s[i]]

\* needle in hay  (Python substring test)
Contains(hay, needle) ==
    \E k \in 0..(Len(hay) - Len(needle)) :
        \A i \in 1..Len(needle) : hay[k + i] = needle[i]

----------------------------------------------------------------------------
(* RiskManager *)

\* RiskManager(max_drawdown_pct): max_drawdown_pct in thousandths
RiskManagerInit(max_dd) ==
    [max_drawdown_pct |-> max_dd, peak_balance |-> 0, current_balance |-> 0,
     current_drawdown |-> <<0, 1>>]

\* volatility_map, in dict order, volatility in thousandths
volatility_map ==
    << <<<<"B", "T", "C">>, 150>>,
       <<<<"E", "T", "H">>, 200>>,
       <<<<"A", "P", "T">>, 250>>,
       <<<<"U", "S", "D", "T">>, 10>>,
       <<<<"U", "S", "D", "C">>, 10>> >>

DefaultVolatility == 300

\* _get_asset_volatility returning the volatility of the last key found in the asset
_get_asset_volatility_last_match(asset) ==
    LET hits == {i \in 1..Len(volatility_map) : Contains(Upper(asset), volatility_map[i][1])}
    IN  IF hits = {} THEN DefaultVolatility
        ELSE volatility_map[CHOOSE i \in hits : \A j \in hits : i >= j][2]

_get_asset_volatility(asset) ==
    LET hits == {i \in 1..Len(volatility_map) : Contains(Upper(asset), volatility_map[i][1])}
    IN  IF hits = {} THEN DefaultVolatility
        ELSE volatility_map[CHOOSE i \in hits : \A j \in hits : i <= j][2]

BasePosition == 10000

\* _calculate_position_limit without the floor max(0.5, .) of the drawdown adjustment
_calculate_position_limit_without_floor(rm, asset) ==
    LET vol == _get_asset_volatility(asset)
        va  == Max(100, 1000 - 2 * vol)
        dn  == rm.current_drawdown[1]
        dd  == rm.current_drawdown[2]
        da  == 2 * dd - 4 * dn
    IN  Rat((BasePosition \div 1000) * va * da, 2 * dd)

\* base_position * max(0.1, 1 - 2*volatility) * max(0.5, 1 - 2*drawdown), as a fraction
_calculate_position_limit(rm, asset) ==
    LET vol == _get_asset_volatility(asset)
        va  == Max(100, 1000 - 2 * vol)                \* volatility_adjustment, thousandths
        dn  == rm.current_drawdown[1]
        dd  == rm.current_drawdown[2]
        da  == Max(dd, 2 * dd - 4 * dn)                \* drawdown_adjustment * 2 * dd
    IN  Rat((BasePosition \div 1000) * va * da, 2 * dd)

\* update_balance taking every report as the new peak
update_balance_resetting_peak(rm, new_balance) ==
    LET peak == new_balance
    IN  [rm EXCEPT !.current_balance = new_balance,
                   !.peak_balance = peak,
                   !.current_drawdown =
                       IF peak > 0 THEN Rat(peak - new_balance, peak) ELSE @]

update_balance(rm, new_balance) ==
    LET peak == IF new_balance > rm.peak_balance THEN new_balance ELSE rm.peak_balance
    IN  [rm EXCEPT !.current_balance = new_balance,
                   !.peak_balance = peak,
                   !.current_drawdown =
                       IF peak > 0 THEN Rat(peak - new_balance, peak) ELSE @]

----------------------------------------------------------------------------
(* The positions dict: a sequence of Position records, in insertion order *)

HasPosition(ps, asset) == \E i \in 1..Len(ps) : ps[i].asset = asset

PositionOf(ps, asset) == ps[CHOOSE i \in 1..Len(ps) : ps[i].asset = asset]

\* ps[asset] = p
DictSet(ps, p) ==
    IF HasPosition(ps, p.asset)
    THEN [i \in 1..Len(ps) |-> IF ps[i].asset = p.asset THEN p ELSE ps[i]]
    ELSE Append(ps, p)

\* del ps[asset]
DictDel(ps, asset) == SelectSeq(ps, LAMBDA p : p.asset # asset)

Position(asset, side, entry, amount, sl, tp) ==
    [asset |-> asset, side |-> side, entry_price |-> entry, amount |-> amount,
     stop_loss_price |-> sl, take_profit_price |-> tp, unrealized_pnl |-> 0]

TradeSignal(action, asset, amount, price, risk, sl, tp) ==
    [action |-> action, asset |-> asset, amount |-> amount, price |-> price,
     risk_score |-> risk, stop_loss_price |-> sl, take_profit_price |-> tp]

MaxPositions == 10

RiskScoreThreshold == 800

\* assess_risk without the same-direction check
assess_risk_any_direction(rm, sig, current_positions) ==
    IF IntGreaterRat(sig.amount, _calculate_position_limit(rm, sig.asset)) THEN FALSE
    ELSE IF rm.current_drawdown[1] * 1000 > rm.max_drawdown_pct * rm.current_drawdown[2] THEN FALSE
    ELSE IF sig.risk_score > RiskScoreThreshold THEN FALSE
    ELSE IF Len(current_positions) >= MaxPositions /\ sig.action \in {"BUY", "SELL"} THEN FALSE
    ELSE TRUE

\* assess_risk rejecting a risk score equal to the threshold
assess_risk_threshold_inclusive(rm, sig, current_positions) ==
    IF IntGreaterRat(sig.amount, _calculate_position_limit(rm, sig.asset)) THEN FALSE
    ELSE IF rm.current_drawdown[1] * 1000 > rm.max_drawdown_pct * rm.current_drawdown[2] THEN FALSE
    ELSE IF sig.risk_score >= RiskScoreThreshold THEN FALSE
    ELSE IF /\ HasPosition(current_positions, sig.asset)
            /\ sig.action \in {"BUY", "SELL"}
            /\ PositionOf(current_positions, sig.asset).side =
                   (IF sig.action = "BUY" THEN "LONG" ELSE "SHORT")
         THEN FALSE
    ELSE IF Len(current_positions) >= MaxPositions /\ sig.action \in {"BUY", "SELL"} THEN FALSE
    ELSE TRUE

\* assess_risk rejecting only above max_positions
assess_risk_cap_exclusive(rm, sig, current_positions) ==
    IF IntGreaterRat(sig.amount, _calculate_position_limit(rm, sig.asset)) THEN FALSE
    ELSE IF rm.current_drawdown[1] * 1000 > rm.max_drawdown_pct * rm.current_drawdown[2] THEN FALSE
    ELSE IF sig.risk_score > RiskScoreThreshold THEN FALSE
    ELSE IF /\ HasPosition(current_positions, sig.asset)
            /\ sig.action \in {"BUY", "SELL"}
            /\ PositionOf(current_positions, sig.asset).side =
                   (IF sig.action = "BUY" THEN "LONG" ELSE "SHORT")
         THEN FALSE
    ELSE IF Len(current_positions) > MaxPositions /\ sig.action \in {"BUY", "SELL"} THEN FALSE
    ELSE TRUE

assess_risk(rm, sig, current_positions) ==
    IF IntGreaterRat(sig.amount, _calculate_position_limit(rm, sig.asset)) THEN FALSE
    ELSE IF rm.current_drawdown[1] * 1000 > rm.max_drawdown_pct * rm.current_drawdown[2] THEN FALSE
    ELSE IF sig.risk_score > RiskScoreThreshold THEN FALSE
    ELSE IF /\ HasPosition(current_positions, sig.asset)
            /\ sig.action \in {"BUY", "SELL"}
            /\ PositionOf(current_positions, sig.asset).side =
                   (IF sig.action = "BUY" THEN "LONG" ELSE "SHORT")
         THEN FALSE
    ELSE IF Len(current_positions) >= MaxPositions /\ sig.action \in {"BUY", "SELL"} THEN FALSE
    ELSE TRUE

----------------------------------------------------------------------------
(* BaseStrategy: position lifecycle and performance accounting *)

\* Python truthiness of an Optional[float]
Truthy(x) == x # NoPrice /\ x # 0

PerformanceMetricsInit ==
    [total_trades |-> 0, successful_trades |-> 0, total_pnl |-> 0, win_rate |-> <<0, 1>>,
     open_positions |-> 0, total_volume |-> 0]

\* entry_price * (1 -/+ stop_loss_pct / 100)
_calculate_stop_loss_price(prm, entry_price, side) ==
    IF side = "LONG" THEN (entry_price * (100 - prm.stop_loss_pct)) \div 100
    ELSE (entry_price * (100 + prm.stop_loss_pct)) \div 100

\* entry_price * (1 +/- take_profit_pct / 100)
_calculate_take_profit_price(prm, entry_price, side) ==
    IF side = "LONG" THEN (entry_price * (100 + prm.take_profit_pct)) \div 100
    ELSE (entry_price * (100 - prm.take_profit_pct)) \div 100

\* _get_current_price: the mock price
MockCurrentPrice == 100

_get_current_price(asset) == MockCurrentPrice

\* _open_position counting the opened Position as a trade
_open_position_counting_trade(prm, sig, ps, perf) ==
    LET side == IF sig.action = "BUY" THEN "LONG" ELSE "SHORT"
        sl == IF ~Truthy(sig.stop_loss_price) /\ prm.stop_loss_pct > 0
              THEN _calculate_stop_loss_price(prm, sig.price, side)
              ELSE sig.stop_loss_price
        tp == IF ~Truthy(sig.take_profit_price) /\ prm.take_profit_pct > 0
              THEN _calculate_take_profit_price(prm, sig.price, side)
              ELSE sig.take_profit_price
        nps == DictSet(ps, Position(sig.asset, side, sig.price, sig.amount, sl, tp))
    IN  [positions |-> nps,
         performance |-> [perf EXCEPT !.open_positions = Len(nps),
                                      !.total_volume = @ + sig.amount * sig.price,
                                      !.total_trades = @ + 1],
         raises |-> sl = NoPrice \/ tp = NoPrice]

\* returns the new positions dict and PerformanceMetrics, and whether the call ends
\* in the TypeError of the final logger.info, which formats both prices with :.2f
\* and cannot format None
_open_position(prm, sig, ps, perf) ==
    LET side == IF sig.action = "BUY" THEN "LONG" ELSE "SHORT"
        sl == IF ~Truthy(sig.stop_loss_price) /\ prm.stop_loss_pct > 0
              THEN _calculate_stop_loss_price(prm, sig.price, side)
              ELSE sig.stop_loss_price
        tp == IF ~Truthy(sig.take_profit_price) /\ prm.take_profit_pct > 0
              THEN _calculate_take_profit_price(prm, sig.price, side)
              ELSE sig.take_profit_price
        nps == DictSet(ps, Position(sig.asset, side, sig.price, sig.amount, sl, tp))
    IN  [positions |-> nps,
         performance |-> [perf EXCEPT !.open_positions = Len(nps),
                                      !.total_volume = @ + sig.amount * sig.price],
         raises |-> sl = NoPrice \/ tp = NoPrice]

\* _update_performance opening the position whatever execute_signal returned
_update_performance_ignoring_success(prm, success, sig, ps, perf) ==
    LET opened == IF sig.action \in {"BUY", "SELL"} /\ ~HasPosition(ps, sig.asset)
                  THEN _open_position(prm, sig, ps, perf)
                  ELSE [positions |-> ps, performance |-> perf, raises |-> FALSE]
        p == opened.performance
    IN  [positions |-> opened.positions,
         performance |-> IF p.total_trades > 0 /\ ~opened.raises
                         THEN [p EXCEPT !.win_rate = Rat(p.successful_trades, p.total_trades)]
                         ELSE p,
         raises |-> opened.raises]

\* _update_performance opening a position although the asset has one
_update_performance_overwriting(prm, success, sig, ps, perf) ==
    IF success
    THEN LET opened == IF sig.action \in {"BUY", "SELL"}
                       THEN _open_position(prm, sig, ps, perf)
                       ELSE [positions |-> ps, performance |-> perf, raises |-> FALSE]
             p == opened.performance
         IN  [positions |-> opened.positions,
              performance |-> IF p.total_trades > 0 /\ ~opened.raises
                              THEN [p EXCEPT !.win_rate = Rat(p.successful_trades, p.total_trades)]
                              ELSE p,
              raises |-> opened.raises]
    ELSE [positions |-> ps, performance |-> perf, raises |-> FALSE]

_update_performance(prm, success, sig, ps, perf) ==
    IF success
    THEN LET opened == IF sig.action \in {"BUY", "SELL"} /\ ~HasPosition(ps, sig.asset)
                       THEN _open_position(prm, sig, ps, perf)
                       ELSE [positions |-> ps, performance |-> perf, raises |-> FALSE]
             p == opened.performance
         IN  [positions |-> opened.positions,
              performance |-> IF p.total_trades > 0 /\ ~opened.raises
                              THEN [p EXCEPT !.win_rate = Rat(p.successful_trades, p.total_trades)]
                              ELSE p,
              raises |-> opened.raises]
    ELSE [positions |-> ps, performance |-> perf, raises |-> FALSE]

\* close_reason with a strict comparison against the take-profit price
close_reason_strict(position, current_price) ==
    IF position.side = "LONG"
    THEN IF Truthy(position.stop_loss_price) /\ current_price <= position.stop_loss_price
         THEN "stop-loss"
         ELSE IF Truthy(position.take_profit_price) /\ current_price > position.take_profit_price
         THEN "take-profit"
         ELSE None
    ELSE IF position.side = "SHORT"
    THEN IF Truthy(position.stop_loss_price) /\ current_price >= position.stop_loss_price
         THEN "stop-loss"
         ELSE IF Truthy(position.take_profit_price) /\ current_price < position.take_profit_price
         THEN "take-profit"
         ELSE None
    ELSE None

\* the reason for which _check_position_exits closes position at current_price, or None
close_reason(position, current_price) ==
    IF position.side = "LONG"
    THEN IF Truthy(position.stop_loss_price) /\ current_price <= position.stop_loss_price
         THEN "stop-loss"
         ELSE IF Truthy(position.take_profit_price) /\ current_price >= position.take_profit_price
         THEN "take-profit"
         ELSE None
    ELSE IF position.side = "SHORT"
    THEN IF Truthy(position.stop_loss_price) /\ current_price >= position.stop_loss_price
         THEN "stop-loss"
         ELSE IF Truthy(position.take_profit_price) /\ current_price <= position.take_profit_price
         THEN "take-profit"
         ELSE None
    ELSE None

\* the list positions_to_close built by the first loop of _check_position_exits
_check_position_exits(ps, current_price) ==
    LET hit == SelectSeq(ps, LAMBDA p : close_reason(p, current_price) # None)
    IN  [i \in 1..Len(hit) |->
            [asset |-> hit[i].asset, position |-> hit[i],
             reason |-> close_reason(hit[i], current_price)]]

\* the close signal built by _close_position
close_signal(asset, position) ==
    TradeSignal(IF position.side = "LONG" THEN "SELL" ELSE "BUY",
                asset, position.amount, 0, 0, NoPrice, NoPrice)

\* _close_position counting a break-even close as a successful trade
_close_position_counting_zero(success, asset, position, ps, perf) ==
    IF success
    THEN LET current_price == _get_current_price(asset)
             pnl == IF position.side = "LONG"
                    THEN (current_price - position.entry_price) * position.amount
                    ELSE (position.entry_price - current_price) * position.amount
             nps == DictDel(ps, asset)
         IN  [positions |-> nps,
              performance |-> [perf EXCEPT !.total_pnl = @ + pnl,
                                           !.total_trades = @ + 1,
                                           !.successful_trades = IF pnl >= 0 THEN @ + 1 ELSE @,
                                           !.open_positions = Len(nps)]]
    ELSE [positions |-> ps, performance |-> perf]

\* _close_position leaving the closed Position in the map
_close_position_keeping_position(success, asset, position, ps, perf) ==
    IF success
    THEN LET current_price == _get_current_price(asset)
             pnl == IF position.side = "LONG"
                    THEN (current_price - position.entry_price) * position.amount
                    ELSE (position.entry_price - current_price) * position.amount
         IN  [positions |-> ps,
              performance |-> [perf EXCEPT !.total_pnl = @ + pnl,
                                           !.total_trades = @ + 1,
                                           !.successful_trades = IF pnl > 0 THEN @ + 1 ELSE @,
                                           !.open_positions = Len(ps)]]
    ELSE [positions |-> ps, performance |-> perf]

\* _close_position from the return of execute_signal(close_signal) on
_close_position(success, asset, position, ps, perf) ==
    IF success
    THEN LET current_price == _get_current_price(asset)
             pnl == IF position.side = "LONG"
                    THEN (current_price - position.entry_price) * position.amount
                    ELSE (position.entry_price - current_price) * position.amount
             nps == DictDel(ps, asset)
         IN  [positions |-> nps,
              performance |-> [perf EXCEPT !.total_pnl = @ + pnl,
                                           !.total_trades = @ + 1,
                                           !.successful_trades = IF pnl > 0 THEN @ + 1 ELSE @,
                                           !.open_positions = Len(nps)]]
    ELSE [positions |-> ps, performance |-> perf]

\* _update_position_pnl computing every Position as a LONG
_update_position_pnl_side_blind(ps, current_price) ==
    [i \in 1..Len(ps) |->
        [ps[i] EXCEPT !.unrealized_pnl = (current_price - ps[i].entry_price) * ps[i].amount]]

_update_position_pnl(ps, current_price) ==
    [i \in 1..Len(ps) |->
        [ps[i] EXCEPT !.unrealized_pnl =
            IF ps[i].side = "LONG"
            THEN (current_price - ps[i].entry_price) * ps[i].amount
            ELSE (ps[i].entry_price - current_price) * ps[i].amount]]

----------------------------------------------------------------------------
(* StrategyExecutor: the registries, the tasks it creates, the strategy     *)
(* objects it is given.  A task is a position in BaseStrategy.run          *)
(* ("pending": created and not yet run, "in_tick": suspended inside an      *)
(* iteration, "sleeping": in the wait that ends it, "backoff": in the wait  *)
(* of the exception handler), a status ("scheduled",                        *)
(* "cancelled", "returned"), the strategy whose run() it executes, the id   *)
(* it was created for, and whether that id has been removed since.          *)

\* strategy ids given to the executor
StrategyIds == {"a", "b"}

\* strategy objects given to the executor
Strategies == {"s1", "s2"}

\* absent entry of self.tasks (tasks are numbered from 1 in creation order)
NoTask == 0

\* positions closed by the ticks of all tasks together
MaxTrades == 1

\* add_strategy calls (each creates a task)
MaxTasks == 2

\* StrategyExecutor.__init__, no strategy object running, no call made
ExecutorInit ==
    /\ executor = [strategies |-> [id \in StrategyIds |-> None],
                   tasks |-> [id \in StrategyIds |-> NoTask]]
    /\ loop_tasks = <<>>
    /\ instances = [st \in Strategies |-> [is_running |-> FALSE, total_trades |-> 0]]
    /\ last_call = [op |-> None, id |-> None, result |-> {}]
    /\ registered = {}

\* the closes counted by the strategy objects together
ClosedSoFar == instances["s1"].total_trades + instances["s2"].total_trades

\* the value returned for id: its strategy's PerformanceMetrics object (owner and
\* content), as a set so that "not found" is the empty set
PerformanceOf(id) ==
    IF executor.strategies[id] # None
    THEN {<<id, executor.strategies[id], instances[executor.strategies[id]].total_trades>>}
    ELSE {}

\* history of the calls: the tasks created for id, once remove_strategy(id) has
\* unregistered id, are marked removed (the code keeps no such record)
MarkRemoved(ts, id) ==
    [t \in 1..Len(ts) |-> IF ts[t].id = id THEN [ts[t] EXCEPT !.removed = TRUE] ELSE ts[t]]

\* task.cancel(): a task that has not returned ends at the await where it is
\* suspended
Cancel(ts, t) ==
    IF ts[t].status = "scheduled" THEN [ts EXCEPT ![t].status = "cancelled"] ELSE ts

----------------------------------------------------------------------------
(* Inputs of the model *)

\* StrategyParameters: percentages as the tests give them (2.0, 5.0), max_drawdown_pct
\* in thousandths (10.0 is 10000) ; the second choice has no stop-loss/take-profit
\* percentage and a max_drawdown_pct of 0.1
TestParams ==
    [stop_loss_pct |-> 2, take_profit_pct |-> 5, max_drawdown_pct |-> 10000,
     execution_frequency_seconds |-> 3600]

PlainParams ==
    [stop_loss_pct |-> 0, take_profit_pct |-> 0, max_drawdown_pct |-> 100,
     execution_frequency_seconds |-> 3600]

ParamChoices == {TestParams, PlainParams}

BackoffSeconds == 60

\* bound: positions opened over the run (closed ones included)
MaxOpened == 2

TickPrices == {95, 100, 105}

\* signals analyze_market may return
LoopSignals ==
    { TradeSignal("BUY", BTCUSDT, 1000, 100, 300, NoPrice, NoPrice),
      TradeSignal("SELL", BTCUSDT, 1000, 100, 300, NoPrice, NoPrice),
      TradeSignal("SELL", USDT, 8000, 200, 300, NoPrice, 190),
      TradeSignal("BUY", USDT, 2000, 200, 800, NoPrice, NoPrice),
      TradeSignal("BUY", BTCUSDT, 8000, 100, 300, NoPrice, NoPrice),
      TradeSignal("SELL", BTCUSDT, 1000, 100, 900, NoPrice, NoPrice),
      TradeSignal("HOLD", EmptyAsset, 0, 0, 0, NoPrice, NoPrice) }

\* balances reported to a strategy's RiskManager while its loop runs
ReportedBalances == {8800, 10000}

\* balances given to a RiskManager used on its own
Balances == {0, 8800, 9000, 10000}

\* the balances test_assess_risk_drawdown_limit assigns to the attributes
TestPeakBalance == 10000

TestCurrentBalance == 8800

\* RiskManager(): default max_drawdown_pct = 0.1
DefaultMaxDrawdown == 100

\* assets of the position dicts passed to assess_risk, in insertion order
AssetSeq ==
    <<BTCUSDT, USDT, ETHUSDT, BNBUSDT, ADAUSDT, SOLUSDT, DOTUSDT, APTUSDT, usdc, APT,
      DOGE, LINK, AVAX, SOL>>

\* bound: size of the position dicts passed to assess_risk
MaxDictSize == 11

\* a dict of n positions of one side (Position fields as in test_enhanced_risk_assessment)
PositionDict(n, side) ==
    [i \in 1..n |-> Position(AssetSeq[i], side, 49000, 1000, NoPrice, NoPrice)]

RiskDicts == { PositionDict(n, side) : n \in 0..MaxDictSize, side \in {"LONG", "SHORT"} }

RiskSignals ==
    { TradeSignal(a, s, m, 50000, r, NoPrice, NoPrice) :
        a \in {"BUY", "SELL", "HOLD"}, s \in {BTCUSDT, USDT, LINK, EmptyAsset},
        m \in {0, 1000, 5600, 7000, 15000}, r \in {300, 800, 900} }

NoSignal == TradeSignal("NONE", EmptyAsset, 0, 0, 0, NoPrice, NoPrice)

NoCall == [active |-> FALSE, signal |-> NoSignal, positions |-> <<>>, result |-> FALSE]

Step(name, outcome) == [step |-> name, outcome |-> outcome]

----------------------------------------------------------------------------
(* BaseStrategy.run, one action per stretch between suspension points *)

Init ==
    /\ params \in ParamChoices
    /\ risk_manager = RiskManagerInit(params.max_drawdown_pct)
    /\ positions = <<>>
    /\ performance = PerformanceMetricsInit
    /\ is_running = FALSE
    /\ pc = "created"
    /\ market_data = NoPrice
    /\ positions_to_close = <<>>
    /\ signal = NoSignal
    /\ approved = FALSE
    /\ exec_signal = NoSignal
    /\ sleeping = 0
    /\ last = Step("none", None)
    /\ call = NoCall
    /\ reports = <<>>
    /\ limit_calls = <<>>
    /\ stop_called = FALSE
    /\ exit_calls = <<>>
    /\ ExecutorInit

\* the task starts running: self.is_running = True
RunStart ==
    /\ pc = "created"
    /\ is_running' = TRUE
    /\ pc' = "while"
    /\ last' = Step("start", None)
    /\ UNCHANGED <<risk_manager, positions, performance, market_data, positions_to_close,
                   signal, approved, exec_signal, sleeping, params, call, auxVars>>

\* while self.is_running:   (the locals of the finished iteration are dead and are cleared)
WhileCheck ==
    /\ pc = "while"
    /\ IF is_running
       THEN pc' = "get_market_data"
       ELSE pc' = "returned"
    /\ last' = Step("while", None)
    /\ market_data' = NoPrice
    /\ signal' = NoSignal
    /\ approved' = FALSE
    /\ UNCHANGED <<risk_manager, positions, performance, is_running, positions_to_close,
                   exec_signal, sleeping, params, call, auxVars>>

\* an exception leaving run() instead of reaching its except clause
Raise_terminating(name) ==
    /\ pc' = "returned"
    /\ sleeping' = 0
    /\ last' = Step(name, "raise")
    /\ positions_to_close' = <<>>
    /\ exec_signal' = NoSignal

\* an exception reaches the except clause of run: await asyncio.sleep(60)
Raise(name) ==
    /\ pc' = "sleep"
    /\ sleeping' = BackoffSeconds
    /\ last' = Step(name, "raise")
    /\ positions_to_close' = <<>>
    /\ exec_signal' = NoSignal

\* market_data = await self._get_market_data()
GetMarketData ==
    /\ pc = "get_market_data"
    /\ \/ /\ \E price \in TickPrices : market_data' = price
          /\ pc' = "check_exits"
          /\ last' = Step("get_market_data", None)
          /\ UNCHANGED <<positions_to_close, exec_signal, sleeping>>
       \/ /\ Raise("get_market_data")
          /\ UNCHANGED market_data
    /\ UNCHANGED <<risk_manager, positions, performance, is_running, signal, approved,
                   params, call, auxVars>>

\* the exit check going on to analyze_market with its closes still to do
CheckPositionExits_deferring_closes ==
    /\ pc = "check_exits"
    /\ positions_to_close' = _check_position_exits(positions, market_data)
    /\ pc' = "analyze_market"
    /\ last' = Step("check_exits", None)
    /\ UNCHANGED <<risk_manager, positions, performance, is_running, market_data, signal,
                   approved, exec_signal, sleeping, params, call, auxVars>>

\* the first loop of _check_position_exits
CheckPositionExits ==
    /\ pc = "check_exits"
    /\ positions_to_close' = _check_position_exits(positions, market_data)
    /\ pc' = IF positions_to_close' = <<>> THEN "analyze_market" ELSE "close_position"
    /\ last' = Step("check_exits", None)
    /\ UNCHANGED <<risk_manager, positions, performance, is_running, market_data, signal,
                   approved, exec_signal, sleeping, params, call, auxVars>>

\* _close_position up to  await self.execute_signal(close_signal)
ClosePosition ==
    /\ pc = "close_position"
    /\ exec_signal' = close_signal(positions_to_close[1].asset, positions_to_close[1].position)
    /\ pc' = "close_execute"
    /\ last' = Step("close_position", None)
    /\ UNCHANGED <<risk_manager, positions, performance, is_running, market_data,
                   positions_to_close, signal, approved, sleeping, params, call, auxVars>>

\* execute_signal(close_signal) returns or raises; rest of _close_position
CloseExecuted ==
    /\ pc = "close_execute"
    /\ \/ \E success \in BOOLEAN :
            LET c == positions_to_close[1]
                r == _close_position(success, c.asset, c.position, positions, performance)
            IN  /\ positions' = r.positions
                /\ performance' = r.performance
                /\ positions_to_close' = Tail(positions_to_close)
                /\ pc' = IF positions_to_close' = <<>> THEN "analyze_market" ELSE "close_position"
                /\ exec_signal' = NoSignal
                /\ last' = Step("close_execute", IF success THEN "success" ELSE "failure")
                /\ UNCHANGED sleeping
       \/ /\ Raise("close_execute")
          /\ UNCHANGED <<positions, performance>>
    /\ UNCHANGED <<risk_manager, is_running, market_data, signal, approved, params, call, auxVars>>

\* signal = await self.analyze_market(market_data)
AnalyzeMarket ==
    /\ pc = "analyze_market"
    /\ \/ /\ \E sig \in LoopSignals :
                /\ \/ performance.total_trades + Len(positions) < MaxOpened
                   \/ sig.action = "HOLD"
                   \/ HasPosition(positions, sig.asset)
                /\ signal' = sig
          /\ pc' = "assess_risk"
          /\ last' = Step("analyze_market", None)
          /\ UNCHANGED <<positions_to_close, exec_signal, sleeping>>
       \/ /\ Raise("analyze_market")
          /\ UNCHANGED signal
    /\ UNCHANGED <<risk_manager, positions, performance, is_running, market_data, approved,
                   params, call, auxVars>>

\* the risk gate handing the signal to execute_signal whatever assess_risk returned
AssessRisk_executing_rejected ==
    /\ pc = "assess_risk"
    /\ approved' = assess_risk(risk_manager, signal, positions)
    /\ exec_signal' = signal
    /\ pc' = "execute_signal"
    /\ last' = Step("assess_risk", IF approved' THEN "approved" ELSE "rejected")
    /\ UNCHANGED <<risk_manager, positions, performance, is_running, market_data,
                   positions_to_close, signal, sleeping, params, call, auxVars>>

\* if self.risk_manager.assess_risk(signal, self.positions): ... else: ...
AssessRisk ==
    /\ pc = "assess_risk"
    /\ approved' = assess_risk(risk_manager, signal, positions)
    /\ IF approved'
       THEN /\ exec_signal' = signal
            /\ pc' = "execute_signal"
       ELSE /\ exec_signal' = NoSignal
            /\ pc' = "update_position_pnl"
    /\ last' = Step("assess_risk", IF approved' THEN "approved" ELSE "rejected")
    /\ UNCHANGED <<risk_manager, positions, performance, is_running, market_data,
                   positions_to_close, signal, sleeping, params, call, auxVars>>

\* success = await self.execute_signal(signal); self._update_performance(success, signal)
\* (an exception of _update_performance reaches the except clause of run after the
\* assignments made before it)
ExecuteSignal ==
    /\ pc = "execute_signal"
    /\ \/ \E success \in BOOLEAN :
            LET r == _update_performance(params, success, signal, positions, performance)
            IN  /\ positions' = r.positions
                /\ performance' = r.performance
                /\ exec_signal' = NoSignal
                /\ last' = Step("execute_signal", IF success THEN "success" ELSE "failure")
                /\ IF r.raises
                   THEN pc' = "sleep" /\ sleeping' = BackoffSeconds
                   ELSE pc' = "update_position_pnl" /\ UNCHANGED sleeping
                /\ UNCHANGED positions_to_close
       \/ /\ Raise("execute_signal")
          /\ UNCHANGED <<positions, performance>>
    /\ UNCHANGED <<risk_manager, is_running, market_data, signal, approved, params, call, auxVars>>

\* self._update_position_pnl(market_data); await asyncio.sleep(execution_frequency_seconds)
UpdatePositionPnl ==
    /\ pc = "update_position_pnl"
    /\ positions' = _update_position_pnl(positions, market_data)
    /\ pc' = "sleep"
    /\ sleeping' = params.execution_frequency_seconds
    /\ last' = Step("update_position_pnl", None)
    /\ UNCHANGED <<risk_manager, performance, is_running, market_data, positions_to_close,
                   signal, approved, exec_signal, params, call, auxVars>>

\* asyncio.sleep returns
Wake ==
    /\ pc = "sleep"
    /\ pc' = "while"
    /\ sleeping' = 0
    /\ last' = Step("wake", None)
    /\ UNCHANGED <<risk_manager, positions, performance, is_running, market_data,
                   positions_to_close, signal, approved, exec_signal, params, call, auxVars>>

\* BaseStrategy.stop(), called from outside the loop
Stop ==
    /\ is_running
    /\ is_running' = FALSE
    /\ UNCHANGED <<risk_manager, positions, performance, pc, market_data, positions_to_close,
                   signal, approved, exec_signal, sleeping, last, params, call, auxVars>>

\* RiskManager.update_balance(new_balance), a balance report from outside the loop
UpdateBalance ==
    /\ \E new_balance \in ReportedBalances :
          risk_manager' = update_balance(risk_manager, new_balance)
    /\ UNCHANGED <<loopVars, call, auxVars>>

Next ==
    \/ RunStart
    \/ WhileCheck
    \/ GetMarketData
    \/ CheckPositionExits
    \/ ClosePosition
    \/ CloseExecuted
    \/ AnalyzeMarket
    \/ AssessRisk
    \/ ExecuteSignal
    \/ UpdatePositionPnl
    \/ Wake
    \/ Stop
    \/ UpdateBalance

Spec == Init /\ [][Next]_vars

\* a step of the task running run(): the event loop resumes the coroutine when the
\* call it awaits has returned or raised, or when its sleep has elapsed
LoopStep ==
    \/ RunStart
    \/ WhileCheck
    \/ GetMarketData
    \/ CheckPositionExits
    \/ ClosePosition
    \/ CloseExecuted
    \/ AnalyzeMarket
    \/ AssessRisk
    \/ ExecuteSignal
    \/ UpdatePositionPnl
    \/ Wake

\* BaseStrategy.stop() called at any point after asyncio.create_task(strategy.run()),
\* the task's first step included, and remembered
StopRequest ==
    /\ is_running' = FALSE
    /\ stop_called' = TRUE
    /\ UNCHANGED <<risk_manager, positions, performance, pc, market_data, positions_to_close,
                   signal, approved, exec_signal, sleeping, last, params, call, reports,
                   limit_calls, exit_calls, execVars>>

NextStop ==
    \/ LoopStep
    \/ StopRequest

SpecStop == Init /\ [][NextStop]_vars /\ WF_vars(LoopStep)

\* the loop on its own, with stop() called from outside at any time
NextLive ==
    \/ LoopStep
    \/ Stop

\* the loop under an event loop that keeps running: awaited calls end, timers fire
SpecLive == Init /\ [][NextLive]_vars /\ WF_vars(LoopStep)

----------------------------------------------------------------------------
(* The loop of a strategy whose analyze_market keeps asking for Positions   *)
(* in new assets: each BUY names the next asset it has not asked for yet.   *)

\* stop-loss and take-profit prices no price of TickPrices meets
FarStopLoss == 1

FarTakeProfit == 1000

\* the signals analyze_market may return once opened Positions have been opened:
\* HOLD, or a BUY of 100 at 100 in the next asset; the BUY of the first asset carries
\* no stop-loss/take-profit (they are derived, and prices of TickPrices meet them),
\* the others carry FarStopLoss and FarTakeProfit
CapSignals(opened) ==
    { TradeSignal("HOLD", EmptyAsset, 0, 0, 0, NoPrice, NoPrice) }
    \cup (IF opened < Len(AssetSeq)
          THEN { IF opened = 0
                 THEN TradeSignal("BUY", AssetSeq[1], 100, 100, 300, NoPrice, NoPrice)
                 ELSE TradeSignal("BUY", AssetSeq[opened + 1], 100, 100, 300,
                                  FarStopLoss, FarTakeProfit) }
          ELSE {})

InitCap == Init

\* signal = await self.analyze_market(market_data)
CapAnalyzeMarket ==
    /\ pc = "analyze_market"
    /\ \/ /\ \E sig \in CapSignals(performance.total_trades + Len(positions)) :
                signal' = sig
          /\ pc' = "assess_risk"
          /\ last' = Step("analyze_market", None)
          /\ UNCHANGED <<positions_to_close, exec_signal, sleeping>>
       \/ /\ Raise("analyze_market")
          /\ UNCHANGED signal
    /\ UNCHANGED <<risk_manager, positions, performance, is_running, market_data, approved,
                   params, call, auxVars>>

NextCap ==
    \/ RunStart
    \/ WhileCheck
    \/ GetMarketData
    \/ CheckPositionExits
    \/ ClosePosition
    \/ CloseExecuted
    \/ CapAnalyzeMarket
    \/ AssessRisk
    \/ ExecuteSignal
    \/ UpdatePositionPnl
    \/ Wake

SpecCap == InitCap /\ [][NextCap]_vars

----------------------------------------------------------------------------
(* A RiskManager used on its own, as the tests use it: balance reports,    *)
(* direct assignment of the balance attributes, calls of assess_risk with  *)
(* a signal and a position dict.                                           *)

InitRisk ==
    /\ params = TestParams
    /\ risk_manager = RiskManagerInit(DefaultMaxDrawdown)
    /\ positions = <<>>
    /\ performance = PerformanceMetricsInit
    /\ is_running = FALSE
    /\ pc = "created"
    /\ market_data = NoPrice
    /\ positions_to_close = <<>>
    /\ signal = NoSignal
    /\ approved = FALSE
    /\ exec_signal = NoSignal
    /\ sleeping = 0
    /\ last = Step("none", None)
    /\ call = NoCall
    /\ reports = <<>>
    /\ limit_calls = <<>>
    /\ stop_called = FALSE
    /\ exit_calls = <<>>
    /\ ExecutorInit

\* risk_manager.update_balance(new_balance)
RiskUpdateBalance ==
    /\ ~call.active
    /\ \E new_balance \in Balances :
          risk_manager' = update_balance(risk_manager, new_balance)
    /\ UNCHANGED <<loopVars, call, auxVars>>

\* risk_manager.peak_balance = peak; risk_manager.current_balance = current
\* (test_assess_risk_drawdown_limit)
RiskAssignBalances ==
    /\ ~call.active
    /\ risk_manager' = [risk_manager EXCEPT !.peak_balance = TestPeakBalance,
                                            !.current_balance = TestCurrentBalance]
    /\ UNCHANGED <<loopVars, call, auxVars>>

\* result = risk_manager.assess_risk(signal, current_positions)
RiskAssess ==
    /\ ~call.active
    /\ \E sig \in RiskSignals, dict \in RiskDicts :
          call' = [active |-> TRUE, signal |-> sig, positions |-> dict,
                   result |-> assess_risk(risk_manager, sig, dict)]
    /\ UNCHANGED <<loopVars, risk_manager, auxVars>>

\* the caller is done with the result
RiskReturn ==
    /\ call.active
    /\ call' = NoCall
    /\ UNCHANGED <<loopVars, risk_manager, auxVars>>

NextRisk ==
    \/ RiskUpdateBalance
    \/ RiskAssignBalances
    \/ RiskAssess
    \/ RiskReturn

SpecRisk == InitRisk /\ [][NextRisk]_vars

----------------------------------------------------------------------------
(* A fresh RiskManager that receives balance reports and is asked for      *)
(* position limits, as in test_update_balance and                          *)
(* test_dynamic_position_sizing.                                           *)

\* the balances of test_update_balance (10000, 12000, 10800), an empty account and
\* a balance below the first
BalanceReports == {0, 9000, 10000, 10800, 12000}

MaxReports == 3

\* asset arguments of _calculate_position_limit: the pairs and coins of the tests, a
\* lower-case identifier, a pair of an unlisted coin and an unlisted coin
QueryAssets == {BTCUSDT, ETHUSDT, APT, USDT, usdc, BNBUSDT, DOGE}

\* RiskManager() just constructed: peak_balance, current_balance, current_drawdown 0.0
InitBalance == InitRisk

\* risk_manager.update_balance(new_balance), the call recorded in reports
ReportBalance ==
    /\ Len(reports) < MaxReports
    /\ \E new_balance \in BalanceReports :
          /\ risk_manager' = update_balance(risk_manager, new_balance)
          /\ reports' = Append(reports, new_balance)
    /\ UNCHANGED <<loopVars, call, limit_calls, stop_called, exit_calls, execVars>>

\* limit = risk_manager._calculate_position_limit(asset)
QueryLimit ==
    /\ \E asset \in QueryAssets :
          LET c == [asset |-> asset, drawdown |-> risk_manager.current_drawdown,
                    result |-> _calculate_position_limit(risk_manager, asset)]
          IN  limit_calls' = IF Len(limit_calls) < 2 THEN Append(limit_calls, c)
                             ELSE <<limit_calls[2], c>>
    /\ UNCHANGED <<loopVars, call, risk_manager, reports, stop_called, exit_calls,
                   execVars>>

NextBalance ==
    \/ ReportBalance
    \/ QueryLimit

SpecBalance == InitBalance /\ [][NextBalance]_vars

----------------------------------------------------------------------------
(* A strategy whose position methods are called directly, as in            *)
(* test_position_management: _open_position(signal) on an asset without    *)
(* Position, _update_position_pnl(market_data).                            *)

\* entry price of the tests
TestEntryPrice == 50000

\* stop-loss and take-profit carried by a signal: none, the two of
\* test_position_management, a stop-loss only
SignalExitPrices == {<<NoPrice, NoPrice>>, <<49000, 52500>>, <<51500, NoPrice>>}

OpenSignals ==
    { TradeSignal(action, asset, 1000, TestEntryPrice, 300, x[1], x[2]) :
        action \in {"BUY", "SELL"}, asset \in {BTCUSDT, ETHUSDT}, x \in SignalExitPrices }

\* prices of the MarketData of test_position_management, and the entry price
MarkPrices == {48500, TestEntryPrice, 51000}

InitPosition == Init

\* strategy._open_position(signal)
OpenPosition ==
    /\ \E sig \in OpenSignals :
          /\ ~HasPosition(positions, sig.asset)
          /\ LET r == _open_position(params, sig, positions, performance)
             IN  /\ positions' = r.positions
                 /\ performance' = r.performance
                 /\ last' = Step("_open_position", IF r.raises THEN "raise" ELSE None)
          /\ signal' = sig
    /\ UNCHANGED <<risk_manager, is_running, pc, market_data, positions_to_close, approved,
                   exec_signal, sleeping, params, call, auxVars>>

\* strategy._update_position_pnl(market_data)
MarkToMarket ==
    /\ \E price \in MarkPrices :
          /\ market_data' = price
          /\ positions' = _update_position_pnl(positions, price)
    /\ last' = Step("_update_position_pnl", None)
    /\ UNCHANGED <<risk_manager, performance, is_running, pc, positions_to_close, signal,
                   approved, exec_signal, sleeping, params, call, auxVars>>

NextPosition ==
    \/ OpenPosition
    \/ MarkToMarket

SpecPosition == InitPosition /\ [][NextPosition]_vars

----------------------------------------------------------------------------
(* A strategy holding Positions whose exit check is called directly, twice  *)
(* in succession with one MarketData, as test_position_management calls it  *)
(* once: _open_position(signal) on assets without Position, then            *)
(* _check_position_exits(market_data) and again                             *)
(* _check_position_exits(market_data), each call closing what it lists      *)
(* through execute_signal.                                                  *)

InitExit == Init

\* strategy._open_position(signal), before the first exit check
ExitOpen ==
    /\ pc = "created"
    /\ exit_calls = <<>>
    /\ OpenPosition

\* await strategy._check_position_exits(market_data), its first loop: the first
\* call with a new MarketData, the second, once the first has returned, with the same
ExitCheck ==
    /\ \/ /\ pc = "created"
          /\ exit_calls = <<>>
          /\ \E price \in MarkPrices : market_data' = price
       \/ /\ pc = "analyze_market"
          /\ Len(exit_calls) = 1
          /\ UNCHANGED market_data
    /\ positions_to_close' = _check_position_exits(positions, market_data')
    /\ exit_calls' = Append(exit_calls, positions_to_close')
    /\ pc' = IF positions_to_close' = <<>> THEN "analyze_market" ELSE "close_position"
    /\ last' = Step("check_exits", None)
    /\ UNCHANGED <<risk_manager, positions, performance, is_running, signal, approved,
                   exec_signal, sleeping, params, call, reports, limit_calls, stop_called,
                   execVars>>

NextExit ==
    \/ ExitOpen
    \/ ExitCheck
    \/ ClosePosition
    \/ CloseExecuted

SpecExit == InitExit /\ [][NextExit]_vars

----------------------------------------------------------------------------
(* An EnhancedFundingRateArbitrageStrategy whose position methods are called *)
(* directly, as test_position_management does: the closes of the exit check  *)
(* go through its own execute_signal.                                        *)

\* EnhancedFundingRateArbitrageStrategy.execute_signal: HOLD returns True; otherwise
\* the log lines format signal.stop_loss_price and signal.take_profit_price with
\* :.2f inside the try, which raises TypeError for None, and the handler returns False
Enhanced_execute_signal(sig) ==
    IF sig.action = "HOLD"
    THEN TRUE
    ELSE sig.stop_loss_price # NoPrice /\ sig.take_profit_price # NoPrice

InitEnhanced == Init

\* the rest of _close_position with the value Enhanced_execute_signal returns
EnhancedCloseExecuted ==
    /\ pc = "close_execute"
    /\ LET success == Enhanced_execute_signal(exec_signal)
           c == positions_to_close[1]
           r == _close_position(success, c.asset, c.position, positions, performance)
       IN  /\ positions' = r.positions
           /\ performance' = r.performance
           /\ positions_to_close' = Tail(positions_to_close)
           /\ pc' = IF positions_to_close' = <<>> THEN "analyze_market" ELSE "close_position"
           /\ exec_signal' = NoSignal
           /\ last' = Step("close_execute", IF success THEN "success" ELSE "failure")
    /\ UNCHANGED <<risk_manager, is_running, market_data, signal, approved, sleeping, params,
                   call, auxVars>>

NextEnhanced ==
    \/ ExitOpen
    \/ ExitCheck
    \/ ClosePosition
    \/ EnhancedCloseExecuted

SpecEnhanced == InitEnhanced /\ [][NextEnhanced]_vars

----------------------------------------------------------------------------
(* A StrategyExecutor with its callers and the tasks of the event loop *)

InitExec == Init /\ params = TestParams

\* await executor.add_strategy(strategy_id, strategy)
AddStrategy(strategy_id, strategy) ==
    /\ Len(loop_tasks) < MaxTasks
    /\ loop_tasks' = Append(loop_tasks, [id |-> strategy_id, strategy |-> strategy,
                                         at |-> "pending", status |-> "scheduled",
                                         removed |-> FALSE])
    /\ executor' = [strategies |-> [executor.strategies EXCEPT ![strategy_id] = strategy],
                    tasks |-> [executor.tasks EXCEPT ![strategy_id] = Len(loop_tasks')]]
    /\ registered' = {r \in registered : r[1] # strategy_id} \cup {<<strategy_id, strategy>>}
    /\ last_call' = [op |-> "add_strategy", id |-> strategy_id, result |-> {}]
    /\ UNCHANGED <<instances, nonExecVars>>

\* remove_strategy that stops the strategy and leaves its task registered
RemoveStrategy_keeping_task(strategy_id) ==
    /\ IF executor.strategies[strategy_id] # None
       THEN /\ instances' = [instances EXCEPT
                                ![executor.strategies[strategy_id]].is_running = FALSE]
            /\ loop_tasks' = MarkRemoved(loop_tasks, strategy_id)
            /\ executor' = [strategies |-> [executor.strategies EXCEPT ![strategy_id] = None],
                            tasks |-> executor.tasks]
       ELSE UNCHANGED <<instances, loop_tasks, executor>>
    /\ registered' = {r \in registered : r[1] # strategy_id}
    /\ last_call' = [op |-> "remove_strategy", id |-> strategy_id, result |-> {}]
    /\ UNCHANGED nonExecVars

\* await executor.remove_strategy(strategy_id)
RemoveStrategy(strategy_id) ==
    /\ IF executor.strategies[strategy_id] # None
       THEN /\ instances' = [instances EXCEPT
                                ![executor.strategies[strategy_id]].is_running = FALSE]
            /\ loop_tasks' = MarkRemoved(IF executor.tasks[strategy_id] # NoTask
                                         THEN Cancel(loop_tasks, executor.tasks[strategy_id])
                                         ELSE loop_tasks, strategy_id)
            /\ executor' = [strategies |-> [executor.strategies EXCEPT ![strategy_id] = None],
                            tasks |-> [executor.tasks EXCEPT ![strategy_id] = NoTask]]
       ELSE UNCHANGED <<instances, loop_tasks, executor>>
    /\ registered' = {r \in registered : r[1] # strategy_id}
    /\ last_call' = [op |-> "remove_strategy", id |-> strategy_id, result |-> {}]
    /\ UNCHANGED nonExecVars

\* await executor.get_performance(strategy_id)
GetPerformance(strategy_id) ==
    /\ last_call' = [op |-> "get_performance", id |-> strategy_id,
                     result |-> PerformanceOf(strategy_id)]
    /\ UNCHANGED <<executor, loop_tasks, instances, registered, nonExecVars>>

\* await executor.get_all_performance()
GetAllPerformance ==
    /\ last_call' = [op |-> "get_all_performance", id |-> None,
                     result |-> UNION { PerformanceOf(id) : id \in StrategyIds }]
    /\ UNCHANGED <<executor, loop_tasks, instances, registered, nonExecVars>>

\* the event loop runs a task for the first time: self.is_running = True and the
\* first iteration up to its first await
TaskStart(t) ==
    /\ loop_tasks[t].status = "scheduled"
    /\ loop_tasks[t].at = "pending"
    /\ instances' = [instances EXCEPT ![loop_tasks[t].strategy].is_running = TRUE]
    /\ loop_tasks' = [loop_tasks EXCEPT ![t].at = "in_tick"]
    /\ UNCHANGED <<executor, last_call, registered, nonExecVars>>

\* an iteration in which every strategy object counts the close, as it would with
\* metrics shared by the instances
TaskTick_shared_metrics(t) ==
    /\ loop_tasks[t].status = "scheduled"
    /\ loop_tasks[t].at = "in_tick"
    /\ \E closed \in {0, 1}, raised \in BOOLEAN :
          /\ ClosedSoFar + closed <= MaxTrades
          /\ instances' = [st \in Strategies |->
                              [instances[st] EXCEPT !.total_trades = @ + closed]]
          /\ loop_tasks' = [loop_tasks EXCEPT
                               ![t].at = IF raised THEN "backoff" ELSE "sleeping"]
    /\ UNCHANGED <<executor, last_call, registered, nonExecVars>>

\* the rest of an iteration: a close moves the metrics of the task's strategy; the
\* iteration ends in its wait (asyncio.sleep(execution_frequency_seconds)), or an
\* exception raised in it, before or after the close, is caught and the task waits
\* in the handler (asyncio.sleep(60))
TaskTick(t) ==
    /\ loop_tasks[t].status = "scheduled"
    /\ loop_tasks[t].at = "in_tick"
    /\ \E closed \in {0, 1}, raised \in BOOLEAN :
          /\ ClosedSoFar + closed <= MaxTrades
          /\ instances' = [instances EXCEPT ![loop_tasks[t].strategy].total_trades = @ + closed]
          /\ loop_tasks' = [loop_tasks EXCEPT
                               ![t].at = IF raised THEN "backoff" ELSE "sleeping"]
    /\ UNCHANGED <<executor, last_call, registered, nonExecVars>>

\* either wait ends: while self.is_running
TaskWake(t) ==
    /\ loop_tasks[t].status = "scheduled"
    /\ loop_tasks[t].at \in {"sleeping", "backoff"}
    /\ loop_tasks' = IF instances[loop_tasks[t].strategy].is_running
                     THEN [loop_tasks EXCEPT ![t].at = "in_tick"]
                     ELSE [loop_tasks EXCEPT ![t].status = "returned"]
    /\ UNCHANGED <<executor, instances, last_call, registered, nonExecVars>>

NextExec ==
    \/ \E strategy_id \in StrategyIds, strategy \in Strategies :
          AddStrategy(strategy_id, strategy)
    \/ \E strategy_id \in StrategyIds : RemoveStrategy(strategy_id)
    \/ \E strategy_id \in StrategyIds : GetPerformance(strategy_id)
    \/ GetAllPerformance
    \/ \E t \in 1..Len(loop_tasks) : TaskStart(t)
    \/ \E t \in 1..Len(loop_tasks) : TaskTick(t)
    \/ \E t \in 1..Len(loop_tasks) : TaskWake(t)

SpecExec == InitExec /\ [][NextExec]_vars

----------------------------------------------------------------------------
(* Properties of assess_risk, over the calls made under SpecRisk *)

ImpliedSide(action) == IF action = "BUY" THEN "LONG" ELSE "SHORT"

\* the grounds of rejection, stated for the call in progress
CallSizeExceeded ==
    IntGreaterRat(call.signal.amount, _calculate_position_limit(risk_manager, call.signal.asset))

CallDrawdownExceeded ==
    risk_manager.current_drawdown[1] * 1000 >
        risk_manager.max_drawdown_pct * risk_manager.current_drawdown[2]

CallRiskTooHigh == call.signal.risk_score > 800

CallExisting == { i \in 1..Len(call.positions) : call.positions[i].asset = call.signal.asset }

CallSameSide ==
    /\ call.signal.action \in {"BUY", "SELL"}
    /\ \E i \in CallExisting : call.positions[i].side = ImpliedSide(call.signal.action)

CallOppositeSide ==
    /\ call.signal.action \in {"BUY", "SELL"}
    /\ \E i \in CallExisting : call.positions[i].side # ImpliedSide(call.signal.action)

\* C6: with the size, drawdown and risk-score checks passing and fewer than 10
\* positions open, assess_risk rejects a BUY/SELL whose implied side is the side of
\* the existing Position on the asset, accepts the opposite-direction signal, and
\* accepts a signal on an asset without Position.
C6_SameSideRejectedOppositeAccepted ==
    (/\ call.active
     /\ ~CallSizeExceeded /\ ~CallDrawdownExceeded /\ ~CallRiskTooHigh
     /\ Len(call.positions) < 10)
    => /\ CallSameSide => call.result = FALSE
       /\ CallOppositeSide => call.result = TRUE
       /\ CallExisting = {} => call.result = TRUE

C6_Witness ==
    /\ call.active
    /\ ~CallSizeExceeded /\ ~CallDrawdownExceeded /\ ~CallRiskTooHigh
    /\ Len(call.positions) = 9
    /\ CallSameSide
    /\ call.result = FALSE

\* C7: assess_risk rejects every signal whose amount exceeds the position limit of
\* its asset and every signal whose risk_score exceeds 0.8, whatever the other fields
\* and the open positions; an amount equal to the limit and a risk_score equal to 0.8
\* are not grounds of rejection.
C7_SizeAndRiskScoreGate ==
    call.active =>
        /\ CallSizeExceeded => call.result = FALSE
        /\ CallRiskTooHigh => call.result = FALSE
        /\ (/\ \/ call.signal.amount * _calculate_position_limit(risk_manager, call.signal.asset)[2]
                    = _calculate_position_limit(risk_manager, call.signal.asset)[1]
               \/ call.signal.risk_score = 800
            /\ ~CallSizeExceeded /\ ~CallRiskTooHigh /\ ~CallDrawdownExceeded
            /\ ~CallSameSide
            /\ Len(call.positions) < 10)
           => call.result = TRUE

C7_Witness ==
    /\ call.active
    /\ CallSizeExceeded
    /\ call.signal.amount = 5600
    /\ call.signal.risk_score = 300
    /\ call.signal.action = "SELL"
    /\ Len(call.positions) = 3
    /\ ~CallSameSide
    /\ call.result = FALSE

\* C8 (as claimed): assess_risk rejects a BUY/SELL signal whenever the balances of the
\* RiskManager imply a drawdown (peak_balance - current_balance) / peak_balance greater
\* than max_drawdown_pct.
C8_RejectsOnImpliedDrawdown ==
    (/\ call.active
     /\ call.signal.action \in {"BUY", "SELL"}
     /\ risk_manager.peak_balance > 0
     /\ (risk_manager.peak_balance - risk_manager.current_balance) * 1000
            > risk_manager.max_drawdown_pct * risk_manager.peak_balance)
    => call.result = FALSE

\* C9 (as claimed): assess_risk returns True for every HOLD signal, in every
\* RiskManager state and for every position dict.
C9_HoldNeverGated ==
    (call.active /\ call.signal.action = "HOLD") => call.result = TRUE

\* C10 (as claimed): with 10 or more Positions open, an opposite-direction signal
\* against an asset that has a Position is approved when the other checks pass; the
\* cap rejects only signals that would open a new Position.
C10_CapOnlyBlocksNewPositions ==
    (/\ call.active
     /\ Len(call.positions) >= 10
     /\ CallOppositeSide
     /\ ~CallSizeExceeded /\ ~CallDrawdownExceeded /\ ~CallRiskTooHigh)
    => call.result = TRUE

----------------------------------------------------------------------------
(* Properties of the control loop, under Spec *)

\* the step is the return of the execute_signal call awaited at pc
ExecReturned(at, outcome) == pc = at /\ pc' # at /\ last'.outcome = outcome

IdentityOf(p) ==
    <<p.asset, p.side, p.entry_price, p.amount, p.stop_loss_price, p.take_profit_price>>

\* C1: when execute_signal returns False, for an approved signal or for a close
\* signal of the exit check, the step leaves the position map as it is (no Position
\* created, none removed) and total_pnl, total_trades and successful_trades unchanged.
C1_FailedExecutionLeavesState ==
    [][ (ExecReturned("execute_signal", "failure") \/ ExecReturned("close_execute", "failure"))
        => /\ positions' = positions
           /\ performance'.total_pnl = performance.total_pnl
           /\ performance'.total_trades = performance.total_trades
           /\ performance'.successful_trades = performance.successful_trades ]_vars

C1_Witness ==
    /\ last = Step("execute_signal", "failure")
    /\ signal.action = "SELL"
    /\ approved
    /\ ~HasPosition(positions, signal.asset)
    /\ Len(positions) = 1

\* C2: a Position is added only by the step in which execute_signal returned success
\* for a BUY/SELL signal approved by assess_risk, on an asset without Position; a
\* Position in the map is never overwritten; no asset has two Positions.
C2_PositionAddedOnlyOnApprovedSuccess ==
    [][ /\ \A i \in 1..Len(positions') :
              LET a == positions'[i].asset
              IN  IF HasPosition(positions, a)
                  THEN IdentityOf(positions'[i]) = IdentityOf(PositionOf(positions, a))
                  ELSE /\ ExecReturned("execute_signal", "success")
                       /\ approved
                       /\ signal.risk_score <= 800
                       /\ signal.action \in {"BUY", "SELL"}
                       /\ signal.asset = a
                       /\ positions'[i].side = ImpliedSide(signal.action)
        /\ \A i, j \in 1..Len(positions') :
              positions'[i].asset = positions'[j].asset => i = j ]_vars

C2_Witness ==
    /\ last = Step("execute_signal", "success")
    /\ Len(positions) = 2
    /\ HasPosition(positions, signal.asset)
    /\ PositionOf(positions, signal.asset).side = ImpliedSide(signal.action)
    /\ positions[2].asset = signal.asset

\* C3 (as claimed): when a BUY/SELL signal in the direction opposite to the existing
\* Position on its asset is approved and executed successfully, that Position is
\* removed from the position map.
C3_OppositeSignalClosesPosition ==
    [][ (/\ ExecReturned("execute_signal", "success")
         /\ approved
         /\ signal.action \in {"BUY", "SELL"}
         /\ HasPosition(positions, signal.asset)
         /\ PositionOf(positions, signal.asset).side # ImpliedSide(signal.action))
        => ~HasPosition(positions', signal.asset) ]_vars

\* the exit trigger of a Position at a tick price
TriggerMet(p, price) ==
    IF p.side = "LONG"
    THEN \/ p.stop_loss_price # NoPrice /\ price <= p.stop_loss_price
         \/ p.take_profit_price # NoPrice /\ price >= p.take_profit_price
    ELSE \/ p.stop_loss_price # NoPrice /\ price >= p.stop_loss_price
         \/ p.take_profit_price # NoPrice /\ price <= p.take_profit_price

C5_SuccessfulCloseAccounting ==
    [][ ExecReturned("close_execute", "success")
        => LET c == positions_to_close[1]
               p == PositionOf(positions, c.asset)
               closePrice == MockCurrentPrice
               pnl == IF p.side = "LONG" THEN (closePrice - p.entry_price) * p.amount
                      ELSE (p.entry_price - closePrice) * p.amount
           IN  /\ ~HasPosition(positions', c.asset)
               /\ Len(positions') = Len(positions) - 1
               /\ performance'.total_pnl = performance.total_pnl + pnl
               /\ performance'.total_trades = performance.total_trades + 1
               /\ performance'.successful_trades =
                      performance.successful_trades + (IF pnl > 0 THEN 1 ELSE 0)
               /\ performance'.open_positions = Len(positions') ]_vars

C5_Witness ==
    /\ last = Step("close_execute", "success")
    /\ performance.total_trades = 2
    /\ performance.successful_trades = 1
    /\ performance.total_pnl = 800000
    /\ performance.open_positions = 0
    /\ positions = <<>>

\* the counters of PerformanceMetrics that trades move
Counters(perf) ==
    <<perf.total_trades, perf.successful_trades, perf.total_pnl, perf.total_volume>>

\* C11: when assess_risk rejects the signal of a tick, the step hands nothing to
\* execute_signal and goes on to mark-to-market; from the rejection to the wait no
\* step calls execute_signal, adds or removes a Position or moves total_trades,
\* successful_trades, total_pnl or total_volume; the wait that follows is the
\* configured interval, not the 60-second backoff, and the signal is not assessed
\* again in the tick.
C11_RejectionLeavesStateAndWaitsInterval ==
    [][ /\ (pc = "assess_risk" /\ pc' # pc /\ ~approved')
           => /\ ~assess_risk(risk_manager, signal, positions)
              /\ pc' = "update_position_pnl"
              /\ exec_signal' = NoSignal
              /\ positions' = positions
              /\ Counters(performance') = Counters(performance)
        /\ (pc = "update_position_pnl" /\ ~approved)
           => /\ last.step = "assess_risk" /\ last.outcome = "rejected"
              /\ exec_signal = NoSignal
              /\ Len(positions') = Len(positions)
              /\ \A i \in 1..Len(positions) :
                    IdentityOf(positions'[i]) = IdentityOf(positions[i])
              /\ Counters(performance') = Counters(performance)
              /\ pc' # pc => /\ pc' = "sleep"
                             /\ sleeping' = params.execution_frequency_seconds
                             /\ sleeping' # BackoffSeconds
        /\ (pc' = "execute_signal" /\ pc # pc') => (pc = "assess_risk" /\ approved')
        /\ (pc' = "assess_risk" /\ pc # pc') => pc = "analyze_market" ]_vars

C11_Witness ==
    /\ pc = "sleep"
    /\ last = Step("update_position_pnl", None)
    /\ ~approved
    /\ signal.action = "SELL"
    /\ signal.risk_score = 900
    /\ sleeping = 3600
    /\ Len(positions) = 1

----------------------------------------------------------------------------
(* Properties of balance tracking, under SpecBalance *)

\* the highest balance reported so far (0.0 before any report is above it)
PeakOfReports ==
    LET above == { reports[i] : i \in 1..Len(reports) } \cup {0}
    IN  CHOOSE m \in above : \A b \in above : b <= m

\* C12: after any sequence of update_balance calls on a fresh RiskManager,
\* current_balance is the last reported balance, peak_balance is the highest balance
\* reported so far and never decreases, current_drawdown is (peak - current) / peak
\* when peak > 0 and 0 otherwise; the drawdown is never negative and is 0 exactly
\* when no positive balance was reported or the last report is the peak.  The
\* reports 10000, 12000, 10800 give the drawdowns 0, 0 and 0.1.
C12_BalanceTracking ==
    /\ [](LET rm == risk_manager
              n  == Len(reports)
              dd == rm.current_drawdown
          IN  /\ n > 0 => rm.current_balance = reports[n]
              /\ rm.peak_balance = PeakOfReports
              /\ dd[2] > 0
              /\ IF PeakOfReports > 0
                 THEN dd[1] * PeakOfReports = (PeakOfReports - rm.current_balance) * dd[2]
                 ELSE dd[1] = 0
              /\ dd[1] >= 0
              /\ dd[1] = 0 <=> (PeakOfReports = 0 \/ rm.current_balance = PeakOfReports)
              /\ reports \in {<<10000>>, <<10000, 12000>>} => dd[1] = 0
              /\ reports = <<10000, 12000, 10800>> => dd = <<1, 10>>)
    /\ [][risk_manager'.peak_balance >= risk_manager.peak_balance]_vars

C12_Witness ==
    /\ reports = <<10000, 12000, 10800>>
    /\ risk_manager.current_balance = 10800
    /\ risk_manager.peak_balance = 12000
    /\ risk_manager.current_drawdown = <<1, 10>>

----------------------------------------------------------------------------
(* Properties of the position limit, over the calls made under SpecBalance *)

RatLess(a, b) == a[1] * b[2] < b[1] * a[2]

RatLeq(a, b) == a[1] * b[2] <= b[1] * a[2]

\* C13: for one asset, the position limit computed at a greater drawdown is never
\* above the limit computed at a smaller one, and no limit is below half of the limit
\* the asset has at drawdown 0.
C13_LimitNonIncreasingInDrawdown ==
    \A i, j \in 1..Len(limit_calls) :
        LET c1 == limit_calls[i]
            c2 == limit_calls[j]
        IN  (c1.asset = c2.asset /\ c1.drawdown[1] >= 0)
            => /\ RatLess(c1.drawdown, c2.drawdown) => RatLeq(c2.result, c1.result)
               /\ c1.drawdown[1] = 0
                  => RatLeq(c1.result, <<2 * c2.result[1], c2.result[2]>>)

C13_Witness ==
    /\ Len(limit_calls) = 2
    /\ limit_calls[1] = [asset |-> BTCUSDT, drawdown |-> <<0, 1>>, result |-> <<7000, 1>>]
    /\ limit_calls[2] = [asset |-> BTCUSDT, drawdown |-> <<1, 1>>, result |-> <<3500, 1>>]

\* the classes of C14, decided by the lookup of _get_asset_volatility
StablecoinClass(asset) == _get_asset_volatility(asset) = 10

MajorVolatileClass(asset) == _get_asset_volatility(asset) \in {150, 200, 250}

\* C14: at equal drawdown the position limit of an asset that the lookup classes as
\* stablecoin (a USDT or USDC key found first, volatility 0.01) is strictly greater
\* than the limit of an asset it classes as major volatile (BTC 0.15, ETH 0.20, APT
\* 0.25).  The lookup is by substring of the upper-cased identifier in the order of
\* the map: BTCUSDT is BTC, ETHUSDT is ETH, usdc is USDC, BNBUSDT is USDT; an
\* identifier containing no key (DOGE) gets 0.30.
C14_StablecoinLimitAboveMajorVolatile ==
    /\ \A i, j \in 1..Len(limit_calls) :
          LET c1 == limit_calls[i]
              c2 == limit_calls[j]
          IN  (/\ c1.drawdown = c2.drawdown
               /\ StablecoinClass(c1.asset)
               /\ MajorVolatileClass(c2.asset))
              => RatLess(c2.result, c1.result)
    /\ \A i \in 1..Len(limit_calls) :
          LET c == limit_calls[i]
          IN  /\ c.asset = BTCUSDT => MajorVolatileClass(c.asset)
              /\ c.asset = ETHUSDT => MajorVolatileClass(c.asset)
              /\ c.asset = APT => MajorVolatileClass(c.asset)
              /\ c.asset \in {USDT, usdc, BNBUSDT} => StablecoinClass(c.asset)
              /\ c.asset = DOGE
                 => /\ _get_asset_volatility(c.asset) = 300
                    /\ c.drawdown = <<0, 1>> => c.result = <<4000, 1>>

C14_Witness ==
    /\ reports = <<10000, 9000>>
    /\ Len(limit_calls) = 2
    /\ limit_calls[1] = [asset |-> BTCUSDT, drawdown |-> <<1, 10>>, result |-> <<5600, 1>>]
    /\ limit_calls[2] = [asset |-> USDT, drawdown |-> <<1, 10>>, result |-> <<7840, 1>>]

----------------------------------------------------------------------------
(* Properties of the position methods, over the calls made under SpecPosition *)

\* the step is a call of _open_position
Opened == Len(positions') = Len(positions) + 1

\* the Position the call stored
NewPosition == positions'[Len(positions')]

\* entry * (1 - pct%) or entry * (1 + pct%), as an equation between integers
IsEntryLess(x, entry, pct) == x * 100 = entry * (100 - pct)

IsEntryPlus(x, entry, pct) == x * 100 = entry * (100 + pct)

DerivedStopLoss(p) ==
    IF p.side = "LONG" THEN IsEntryLess(p.stop_loss_price, p.entry_price, params.stop_loss_pct)
    ELSE IsEntryPlus(p.stop_loss_price, p.entry_price, params.stop_loss_pct)

DerivedTakeProfit(p) ==
    IF p.side = "LONG" THEN IsEntryPlus(p.take_profit_price, p.entry_price, params.take_profit_pct)
    ELSE IsEntryLess(p.take_profit_price, p.entry_price, params.take_profit_pct)

\* side, entry price and amount of the stored Position, and the Positions left alone
OpenedBasics ==
    /\ NewPosition.asset = signal'.asset
    /\ NewPosition.side = (IF signal'.action = "BUY" THEN "LONG" ELSE "SHORT")
    /\ NewPosition.entry_price = signal'.price
    /\ NewPosition.amount = signal'.amount
    /\ \A i \in 1..Len(positions) : positions'[i] = positions[i]

\* C15 (as claimed): _open_position stores a Position with side LONG for BUY and
\* SHORT for SELL, the price and amount of the signal, the stop-loss and take-profit
\* of the signal when it has them and otherwise the prices derived from the
\* percentages: entry * (1 - sl%) and entry * (1 + tp%) for LONG, entry * (1 + sl%)
\* and entry * (1 - tp%) for SHORT.
C15_OpenPositionFields ==
    [][ Opened
        => /\ OpenedBasics
           /\ IF signal'.stop_loss_price # NoPrice
              THEN NewPosition.stop_loss_price = signal'.stop_loss_price
              ELSE DerivedStopLoss(NewPosition)
           /\ IF signal'.take_profit_price # NoPrice
              THEN NewPosition.take_profit_price = signal'.take_profit_price
              ELSE DerivedTakeProfit(NewPosition) ]_vars

----------------------------------------------------------------------------
(* Properties of mark-to-market and of the order of the steps, under Spec *)

\* C16: the mark-to-market step of a tick sets the unrealized_pnl of every open
\* Position to (tick price - entry) * amount for LONG and (entry - tick price) *
\* amount for SHORT and changes nothing else: the same Positions in the same order
\* with the same side, entry price, amount, stop-loss and take-profit, the same
\* PerformanceMetrics and the same RiskManager state.
C16_MarkToMarketOnlySetsUnrealizedPnl ==
    [][ (pc = "update_position_pnl" /\ pc' # pc)
        => /\ Len(positions') = Len(positions)
           /\ \A i \in 1..Len(positions) :
                 LET p == positions[i]
                     q == positions'[i]
                 IN  /\ IdentityOf(q) = IdentityOf(p)
                     /\ q.unrealized_pnl =
                            IF p.side = "LONG"
                            THEN (market_data - p.entry_price) * p.amount
                            ELSE (p.entry_price - market_data) * p.amount
           /\ performance' = performance
           /\ risk_manager' = risk_manager ]_vars

C16_Witness ==
    /\ pc = "sleep"
    /\ last = Step("update_position_pnl", None)
    /\ market_data = 105
    /\ Len(positions) = 2
    /\ positions[1].side = "SHORT" /\ positions[1].entry_price = 100
    /\ positions[1].unrealized_pnl = 0 - 5000
    /\ positions[2].side = "SHORT" /\ positions[2].entry_price = 200
    /\ positions[2].unrealized_pnl = 760000

\* the steps that may follow a step of run(), by position in the coroutine
StepOrder ==
    [created             |-> {"while"},
     while               |-> {"get_market_data", "returned"},
     get_market_data     |-> {"check_exits", "sleep"},
     check_exits         |-> {"close_position", "analyze_market"},
     close_position      |-> {"close_execute"},
     close_execute       |-> {"close_position", "analyze_market", "sleep"},
     analyze_market      |-> {"assess_risk", "sleep"},
     assess_risk         |-> {"execute_signal", "update_position_pnl"},
     execute_signal      |-> {"update_position_pnl", "sleep"},
     update_position_pnl |-> {"sleep"},
     sleep               |-> {"while"},
     returned            |-> {}]

\* C17: in every tick the steps follow the order market data, exit check (with its
\* closes), analyze_market, risk gate, execute, mark-to-market, wait, a raise going
\* to the wait; analyze_market is entered only from the exit check with no close
\* left to do; nothing changes the position map while analyze_market runs, and the
\* risk gate decides on the map it then finds, which is the map the exit check left.
C17_TickStepOrder ==
    [][ /\ pc' # pc => pc' \in StepOrder[pc]
        /\ (pc' = "analyze_market" /\ pc' # pc)
           => /\ pc \in {"check_exits", "close_execute"}
              /\ positions_to_close' = <<>>
              /\ exec_signal' = NoSignal
        /\ pc = "analyze_market" => positions' = positions
        /\ (pc = "assess_risk" /\ pc' # pc)
           => /\ approved' = assess_risk(risk_manager, signal, positions)
              /\ positions' = positions
        /\ (pc' = "sleep" /\ pc \notin {"sleep", "update_position_pnl"})
           => sleeping' = BackoffSeconds ]_vars

C17_Witness ==
    /\ pc = "assess_risk"
    /\ positions = <<>>
    /\ performance.total_trades = 1
    /\ performance.total_pnl = 800000
    /\ signal.action = "SELL"
    /\ signal.asset = USDT
    /\ market_data = 95

----------------------------------------------------------------------------
(* Properties of error handling and stopping, under SpecLive *)

\* the step is an exception reaching the except clause of run()
Caught == pc' = "sleep" /\ pc \notin {"sleep", "update_position_pnl"}

\* C18: an exception raised in a tick is caught: the step that raises leaves the
\* loop running and starts the 60-second backoff, not the configured interval; the
\* loop returns only from the top-of-iteration check with is_running False, and no
\* step of the loop clears is_running; after a backoff the loop either starts a new
\* tick or finds that it was stopped.
C18_ExceptionNeverEndsLoop ==
    /\ [][ /\ Caught => /\ sleeping' = BackoffSeconds
                         /\ sleeping' # params.execution_frequency_seconds
                         /\ is_running' = is_running
           /\ (pc' = "returned" /\ pc' # pc) => (pc = "while" /\ ~is_running)
           /\ (is_running /\ ~is_running') => pc' = pc ]_vars
    /\ (pc = "sleep" /\ sleeping = BackoffSeconds)
           ~> (pc = "get_market_data" \/ ~is_running)

C18_Witness ==
    /\ pc = "get_market_data"
    /\ is_running
    /\ signal = NoSignal
    /\ Len(positions) = 1
    /\ positions[1].stop_loss_price = NoPrice
    /\ positions[1].unrealized_pnl = 0
    /\ performance.total_volume = 100000

\* C19 (as claimed): whenever stop() is called after the task of run() was created,
\* the iteration in progress goes on step by step to its end, the next
\* top-of-iteration check starts no new iteration but ends the loop, and run()
\* eventually returns.
C19_StopIsEffective ==
    /\ [][ stop_called
           => /\ (pc = "while" /\ pc' # pc) => pc' = "returned"
              /\ (pc # "while" /\ pc' # pc) => pc' \in StepOrder[pc] \ {"returned"} ]_vars
    /\ stop_called ~> (pc = "returned")

----------------------------------------------------------------------------
(* Properties of the StrategyExecutor registries, under SpecExec *)

RegisteredIds == { r[1] : r \in registered }

\* the step is a call of a StrategyExecutor method
Called(op) == last_call' # last_call /\ last_call'.op = op

\* C20: the strategies and tasks registries hold the same ids, which are the ids
\* added and not removed since; get_all_performance returns exactly those ids, each
\* with the PerformanceMetrics of the strategy added under it; get_performance(id)
\* returns that strategy's PerformanceMetrics for such an id and nothing for any
\* other, an id removed while its task was inside an iteration included;
\* remove_strategy of an id that is not registered changes nothing.
C20_RegistryMatchesAddsAndRemoves ==
    /\ [](\A id \in StrategyIds :
            /\ executor.strategies[id] # None <=> id \in RegisteredIds
            /\ executor.strategies[id] # None <=> executor.tasks[id] # NoTask)
    /\ [][ /\ Called("get_all_performance")
              => /\ { r[1] : r \in last_call'.result } = RegisteredIds
                 /\ \A r \in last_call'.result :
                       /\ <<r[1], r[2]>> \in registered
                       /\ r[3] = instances[r[2]].total_trades
                 /\ Cardinality(last_call'.result) = Cardinality(RegisteredIds)
           /\ Called("get_performance")
              => IF last_call'.id \in RegisteredIds
                 THEN \E r \in registered :
                         /\ r[1] = last_call'.id
                         /\ last_call'.result = {<<r[1], r[2], instances[r[2]].total_trades>>}
                 ELSE last_call'.result = {}
           /\ (Called("remove_strategy") /\ last_call'.id \notin RegisteredIds)
              => UNCHANGED <<executor, loop_tasks, instances, registered>> ]_vars

C20_Witness ==
    /\ last_call = [op |-> "get_performance", id |-> "a", result |-> {}]
    /\ Len(loop_tasks) = 2
    /\ loop_tasks[1] = [id |-> "a", strategy |-> "s1", at |-> "in_tick", status |-> "cancelled",
                       removed |-> TRUE]
    /\ loop_tasks[2].id = "b" /\ loop_tasks[2].status = "scheduled"
    /\ instances["s1"].total_trades = 1
    /\ registered = {<<"b", "s2">>}

\* a step in which task t goes on in BaseStrategy.run: it starts its first
\* iteration, or runs an iteration on to its wait
TickStepOf(t) ==
    /\ t <= Len(loop_tasks)
    /\ loop_tasks'[t].at # loop_tasks[t].at
    /\ loop_tasks'[t].at \in {"in_tick", "sleeping", "backoff"}

\* C21: once remove_strategy(id) has returned, no task that add_strategy created
\* for id before that call takes a further tick step, whatever the sequence of
\* add_strategy and remove_strategy calls, add_strategy twice with one id included.
C21_NoTickAfterRemove ==
    [][ \A t \in 1..Len(loop_tasks) : loop_tasks[t].removed => ~TickStepOf(t) ]_vars

\* task t is suspended inside an iteration of its strategy's run(), before the
\* wait that ends the iteration
InsideTick(t) ==
    /\ loop_tasks[t].status = "scheduled"
    /\ loop_tasks[t].at = "in_tick"

\* C23: at any time at most one task is inside an iteration of the control loop of
\* a given strategy object, whatever add_strategy and remove_strategy calls were made.
C23_NoOverlappingTicks ==
    \A t1, t2 \in 1..Len(loop_tasks) :
        (InsideTick(t1) /\ InsideTick(t2) /\ loop_tasks[t1].strategy = loop_tasks[t2].strategy)
            => t1 = t2

\* a step in which an iteration of task t ends in the exception handler
RaisedIn(t) ==
    /\ loop_tasks[t].status = "scheduled"
    /\ loop_tasks[t].at = "in_tick"
    /\ loop_tasks'[t].at = "backoff"

AssetsOf(closes) == [i \in 1..Len(closes) |-> closes[i].asset]

\* the second of two successive calls of the exit check starts
SecondExitCheck == Len(exit_calls) = 1 /\ Len(exit_calls') = 2

C25_WinRateRecomputedOnClose ==
    (/\ performance.total_trades > 0
     /\ \/ last = Step("close_execute", "success")
        \/ pc = "sleep")
    => performance.win_rate
         = Rat(performance.successful_trades, performance.total_trades)

\* C26: when the exit check of an EnhancedFundingRateArbitrageStrategy lists a
\* Position (its stop-loss or take-profit is met by the price), the close signal
\* is executed successfully by the strategy's execute_signal and the Position is
\* removed from the map before the check returns.
C26_EnhancedClosesTriggeredPosition ==
    [][ (pc = "close_execute" /\ pc' # "close_execute")
        => /\ last' = Step("close_execute", "success")
           /\ ~HasPosition(positions', positions_to_close[1].asset) ]_vars

\* the reported balance is more than pct percent below the peak balance
FallenMoreThan(rm, pct) ==
    /\ rm.peak_balance > 0
    /\ (rm.peak_balance - rm.current_balance) * 100 > pct * rm.peak_balance

\* C27: a strategy constructed with max_drawdown_pct = 10 has every BUY/SELL signal
\* rejected by its risk gate while its reported balance is more than 10% below its
\* peak balance.
C27_TenPercentDrawdownRejects ==
    [][ (/\ pc = "assess_risk"
         /\ params.max_drawdown_pct = 10 * 1000
         /\ signal.action \in {"BUY", "SELL"}
         /\ FallenMoreThan(risk_manager, 10))
        => (pc' # "assess_risk" => ~approved') ]_vars

\* the PnL of position closed at price
PnlAt(position, price) ==
    IF position.side = "LONG"
    THEN (price - position.entry_price) * position.amount
    ELSE (position.entry_price - price) * position.amount

\* the take-profit price lies on the profitable side of the entry price
TargetProfitable(position) ==
    /\ position.take_profit_price # NoPrice
    /\ IF position.side = "LONG"
       THEN position.take_profit_price > position.entry_price
       ELSE position.take_profit_price < position.entry_price

\* the stop-loss price lies on the losing side of the entry price
StopLosing(position) ==
    /\ position.stop_loss_price # NoPrice
    /\ IF position.side = "LONG"
       THEN position.stop_loss_price < position.entry_price
       ELSE position.stop_loss_price > position.entry_price

\* C28: a successful close realizes the PnL of the Position at the tick price that
\* triggered the exit: a take-profit close with the target on the profitable side
\* of the entry price adds a positive PnL and counts in successful_trades, a
\* stop-loss close with the stop on the losing side adds a negative PnL and does
\* not count.
C28_CloseRealizesPnlAtTickPrice ==
    [][ (pc = "close_execute" /\ last' = Step("close_execute", "success"))
        => LET c == positions_to_close[1]
               pnl == performance'.total_pnl - performance.total_pnl
               counted == performance'.successful_trades - performance.successful_trades
           IN  /\ pnl = PnlAt(c.position, market_data)
               /\ (c.reason = "take-profit" /\ TargetProfitable(c.position))
                  => (pnl > 0 /\ counted = 1)
               /\ (c.reason = "stop-loss" /\ StopLosing(c.position))
                  => (pnl < 0 /\ counted = 0) ]_vars

\* C29: in every state of a strategy's control loop started with an empty
\* position map, at most 10 Positions are open.
C29_AtMostTenOpenPositions ==
    /\ Len(positions) <= 10
    /\ performance.open_positions <= 10

\* ten Positions are open and the BUY of an eleventh asset has just been rejected
C29_Witness ==
    /\ Len(positions) = 10
    /\ signal.action = "BUY"
    /\ ~HasPosition(positions, signal.asset)
    /\ last = Step("assess_risk", "rejected")

\* the trade counters of PerformanceMetrics
TradeCounters(perf) == <<perf.total_trades, perf.successful_trades>>

\* a step in which a close signal has executed successfully
SuccessfulClose ==
    /\ pc = "close_execute"
    /\ last' = Step("close_execute", "success")

\* C30: total_trades and successful_trades change only in a successful close of
\* a Position, never when a signal is executed or a Position opened: each
\* successful close removes one Position and adds one to total_trades (which
\* starts at 0 and so counts the successful closes) and at most one to
\* successful_trades; in every state successful_trades <= total_trades and
\* open_positions is the size of the position map.
C30_CloseTimeOnlyCounters ==
    /\ performance.total_trades = 0
    /\ [][ /\ TradeCounters(performance') # TradeCounters(performance) => SuccessfulClose
           /\ SuccessfulClose
              => /\ performance'.total_trades = performance.total_trades + 1
                 /\ performance'.successful_trades - performance.successful_trades
                       \in {0, 1}
                 /\ Len(positions') = Len(positions) - 1 ]_vars
    /\ [](/\ performance.successful_trades <= performance.total_trades
          /\ performance.open_positions = Len(positions))

\* after a close, a new Position has been opened: one trade counted, one Position open
C30_Witness ==
    /\ performance.total_trades = 1
    /\ Len(positions) = 1
    /\ performance.open_positions = 1
    /\ last = Step("execute_signal", "success")
    /\ HasPosition(positions, signal.asset)

====
